---- MODULE Spec2Model ----
(***************************************************************************)
(* Model of the undirected graph library: edge.py (Edge), graph.py (Graph) *)
(* and weighted_graph.py (WeightedGraph).  Python lists are objects: the   *)
(* model keeps the list objects a graph's _vertices attribute can refer to *)
(* (the default-argument list of each __init__, or the list the caller     *)
(* passed) apart from the per-instance _edges list, and models subscripts  *)
(* and list.index with Python's semantics (negative subscripts count from  *)
(* the end; out-of-range subscripts raise IndexError; list.index raises    *)
(* ValueError on an absent value).                                         *)
(***************************************************************************)
EXTENDS Integers, Sequences, FiniteSets, TLC

\* ---------------------------------------------------------------- bounds
\* MaxVertices: vertex values held by all list objects of a run together;
\* MaxEdgeCount: an insertion call is made only while all adjacency lists of
\* the run together hold fewer entries than this.
MaxVertices == 2
MaxEdgeCount == 3

\* Input domains of the calls.
\* Two graph objects: the properties about distinct instances are pairwise.
Inst == {1, 2}
Values == {"A", "B"}
Weights == {1, 2}
\* index arguments: -1 (Python's "last element"), every index a list of the
\* run can have, and one past the largest
Idx == (0 - 1)..MaxVertices
Classes == {"Graph", "WeightedGraph"}

VARIABLES
    defaults,   \* class -> the list object bound to __init__'s default argument
    argl,       \* instance -> the list object its caller passed to __init__
    kind,       \* instance -> "none" (not constructed), "Graph" or "WeightedGraph"
    vref,       \* instance -> which list object self._vertices refers to
    edges,      \* instance -> self._edges, a list of lists of edges
    log,        \* instance -> the edges of the add_edge calls that returned normally
    last        \* the most recent call: operation, instance, arguments, outcome

vars == <<defaults, argl, kind, vref, edges, log, last>>

\* ------------------------------------------------------- Python helpers
Ok(v) == [outcome |-> "ok", value |-> v]
Raise(e) == [outcome |-> e]

SeqsUpTo(S, n) == UNION {[1..k -> S] : k \in 0..n}

RECURSIVE SumLen(_)
SumLen(ls) == IF ls = <<>> THEN 0 ELSE Len(Head(ls)) + SumLen(Tail(ls))

\* lst[i] is defined for -len <= i < len
InRange(i, n) == (0 - n) <= i /\ i < n
\* the 1-based position Python's subscript i denotes in a list of length n
Pos(i, n) == (IF i < 0 THEN i + n ELSE i) + 1

getitem(lst, i) ==
    IF InRange(i, Len(lst)) THEN Ok(lst[Pos(i, Len(lst))]) ELSE Raise("IndexError")

RECURSIVE scan(_, _, _)
scan(lst, x, i) ==
    IF i > Len(lst) THEN Raise("ValueError")
    ELSE IF lst[i] = x THEN Ok(i - 1)
    ELSE scan(lst, x, i + 1)

\* a lookup that returns the last position holding x instead of the first
RECURSIVE scan_back(_, _, _)
scan_back(lst, x, i) ==
    IF i < 1 THEN Raise("ValueError")
    ELSE IF lst[i] = x THEN Ok(i - 1)
    ELSE scan_back(lst, x, i - 1)

index_last(lst, x) == scan_back(lst, x, Len(lst))

\* a lookup that answers -1 for an absent value (str.find) instead of raising
index_find(lst, x) ==
    IF scan(lst, x, 1).outcome = "ok" THEN scan(lst, x, 1) ELSE Ok(0 - 1)

\* list.index(x): the first position holding a value equal to x
index(lst, x) == scan(lst, x, 1)

\* ---------------------------------------------------------------- edges
Edge(u, v) == [u |-> u, v |-> v]
WeightedEdge(u, v, weight) == [u |-> u, v |-> v, weight |-> weight]

EdgeReversed(e) == Edge(e.v, e.u)
WeightedEdgeReversed(e) == WeightedEdge(e.v, e.u, e.weight)
\* edge.reversed(), dispatched on the edge's class
reversed(e) == IF "weight" \in DOMAIN e THEN WeightedEdgeReversed(e) ELSE EdgeReversed(e)

\* --------------------------------------------------------------- queries
Constructed == {g \in Inst : kind[g] # "none"}

\* self._vertices
vertices(g) == IF vref[g] = "default" THEN defaults[kind[g]] ELSE argl[g]

vertex_count(g) == Len(vertices(g))
edge_count(g) == SumLen(edges[g])

vertex_at(g, i) == getitem(vertices(g), i)
index_of(g, vertex) == index(vertices(g), vertex)

\* map(f, xs) for an f that may raise: the first exception propagates
RECURSIVE MapRaise(_, _, _)
MapRaise(g, es, acc) ==
    IF es = <<>> THEN Ok(acc)
    ELSE LET r == vertex_at(g, Head(es).v) IN
         IF r.outcome # "ok" THEN r
         ELSE MapRaise(g, Tail(es), Append(acc, r.value))

edges_for_index(g, i) == getitem(edges[g], i)

neighbors_for_index(g, i) ==
    LET es == edges_for_index(g, i) IN
    IF es.outcome # "ok" THEN es ELSE MapRaise(g, es.value, <<>>)

neighbors_for_vertex(g, vertex) ==
    LET i == index_of(g, vertex) IN
    IF i.outcome # "ok" THEN i ELSE neighbors_for_index(g, i.value)

edges_for_vertex(g, vertex) ==
    LET i == index_of(g, vertex) IN
    IF i.outcome # "ok" THEN i ELSE edges_for_index(g, i.value)

RECURSIVE WeightLoop(_, _, _)
WeightLoop(g, es, distance_tuples) ==
    IF es = <<>> THEN Ok(distance_tuples)
    ELSE LET r == vertex_at(g, Head(es).v) IN
         IF r.outcome # "ok" THEN r
         ELSE WeightLoop(g, Tail(es), Append(distance_tuples, <<r.value, Head(es).weight>>))

neighbors_for_index_with_weights(g, i) ==
    LET es == edges_for_index(g, i) IN
    IF es.outcome # "ok" THEN es ELSE WeightLoop(g, es.value, <<>>)

\* ------------------------------------------------------------- mutation
\* Graph.add_edge on the list-of-lists es: two subscripted appends in order;
\* the second subscript may raise after the first append has happened.
AddEdge(es, edge) ==
    LET n == Len(es) IN
    IF ~InRange(edge.u, n) THEN [outcome |-> "IndexError", edges |-> es]
    ELSE LET es1 == [es EXCEPT ![Pos(edge.u, n)] = Append(@, edge)] IN
         IF ~InRange(edge.v, n) THEN [outcome |-> "IndexError", edges |-> es1]
         ELSE [outcome |-> "ok",
               edges |-> [es1 EXCEPT ![Pos(edge.v, n)] = Append(@, reversed(edge))]]

\* the sum of f[x] over x in S
RECURSIVE SumOver(_, _)
SumOver(f, S) ==
    IF S = {} THEN 0
    ELSE LET x == CHOOSE y \in S : TRUE IN f[x] + SumOver(f, S \ {x})

\* vertex values held by the list objects of the run
TotalVertices ==
    SumOver([c \in Classes |-> Len(defaults[c])], Classes)
        + SumOver([h \in Inst |-> Len(argl[h])], Inst)
\* adjacency entries held by the graphs of the run
TotalEdges == SumOver([h \in Inst |-> edge_count(h)], Inst)

Budget == TotalEdges < MaxEdgeCount

\* the state change of self.add_edge(edge), recorded as operation op
DoAddEdge(g, edge, op, args) ==
    LET r == AddEdge(edges[g], edge) IN
    /\ edges' = [edges EXCEPT ![g] = r.edges]
    /\ log' = IF r.outcome = "ok" THEN [log EXCEPT ![g] = Append(@, edge)] ELSE log
    /\ last' = [op |-> op, g |-> g, args |-> args, outcome |-> r.outcome]
    /\ UNCHANGED <<defaults, argl, kind, vref>>

\* a call that raised before touching the graph
DoRaise(g, op, args, e) ==
    /\ last' = [op |-> op, g |-> g, args |-> args, outcome |-> e]
    /\ UNCHANGED <<defaults, argl, kind, vref, edges, log>>

\* Graph.__init__ / WeightedGraph.__init__ with the default argument
InitDefault(g, class) ==
    /\ kind[g] = "none"
    /\ \A h \in Inst : h < g => kind[h] # "none"
    /\ kind' = [kind EXCEPT ![g] = class]
    /\ vref' = [vref EXCEPT ![g] = "default"]
    /\ edges' = [edges EXCEPT ![g] = [i \in 1..Len(defaults[class]) |-> <<>>]]
    /\ last' = [op |-> "__init__", g |-> g, args |-> <<>>, outcome |-> "ok"]
    /\ UNCHANGED <<defaults, argl, log>>

\* Graph.__init__ / WeightedGraph.__init__ with a list object of the caller
InitWith(g, class, vs) ==
    /\ kind[g] = "none"
    /\ \A h \in Inst : h < g => kind[h] # "none"
    /\ kind' = [kind EXCEPT ![g] = class]
    /\ vref' = [vref EXCEPT ![g] = "arg"]
    /\ TotalVertices + Len(vs) <= MaxVertices
    /\ argl' = [argl EXCEPT ![g] = vs]
    /\ edges' = [edges EXCEPT ![g] = [i \in 1..Len(vs) |-> <<>>]]
    /\ last' = [op |-> "__init__", g |-> g, args |-> <<vs>>, outcome |-> "ok"]
    /\ UNCHANGED <<defaults, log>>

add_vertex(g, vertex) ==
    /\ kind[g] # "none"
    /\ TotalVertices < MaxVertices
    /\ IF vref[g] = "default"
       THEN /\ defaults' = [defaults EXCEPT ![kind[g]] = Append(@, vertex)]
            /\ argl' = argl
       ELSE /\ argl' = [argl EXCEPT ![g] = Append(@, vertex)]
            /\ defaults' = defaults
    /\ edges' = [edges EXCEPT ![g] = Append(@, <<>>)]
    /\ last' = [op |-> "add_vertex", g |-> g, args |-> <<vertex>>, outcome |-> "ok"]
    /\ UNCHANGED <<kind, vref, log>>

\* Graph.add_edge, also what a WeightedGraph inherits: the caller passes an
\* edge object of the graph's edge class
add_edge(g, edge) ==
    /\ kind[g] # "none"
    /\ Budget
    /\ DoAddEdge(g, edge, "add_edge", <<edge.u, edge.v>>)

\* Graph.add_edge_by_indices
add_edge_by_indices(g, u, v) ==
    /\ kind[g] = "Graph"
    /\ Budget
    /\ DoAddEdge(g, Edge(u, v), "add_edge_by_indices", <<u, v>>)

\* WeightedGraph.add_edge_by_indices
weighted_add_edge_by_indices(g, u, v, weight) ==
    /\ kind[g] = "WeightedGraph"
    /\ Budget
    /\ DoAddEdge(g, WeightedEdge(u, v, weight), "add_edge_by_indices", <<u, v>>)

\* Graph.add_edge_by_vertices
add_edge_by_vertices(g, first, second) ==
    /\ kind[g] = "Graph"
    /\ Budget
    /\ LET u == index(vertices(g), first)
           v == index(vertices(g), second)
       IN  IF u.outcome # "ok"
           THEN DoRaise(g, "add_edge_by_vertices", <<first, second>>, u.outcome)
           ELSE IF v.outcome # "ok"
           THEN DoRaise(g, "add_edge_by_vertices", <<first, second>>, v.outcome)
           ELSE DoAddEdge(g, Edge(u.value, v.value),
                          "add_edge_by_vertices", <<first, second>>)

\* WeightedGraph.add_edge_by_vertices
weighted_add_edge_by_vertices(g, first, second, weight) ==
    /\ kind[g] = "WeightedGraph"
    /\ Budget
    /\ LET u == index(vertices(g), first)
           v == index(vertices(g), second)
       IN  IF u.outcome # "ok"
           THEN DoRaise(g, "add_edge_by_vertices", <<first, second>>, u.outcome)
           ELSE IF v.outcome # "ok"
           THEN DoRaise(g, "add_edge_by_vertices", <<first, second>>, v.outcome)
           ELSE DoAddEdge(g, WeightedEdge(u.value, v.value, weight),
                          "add_edge_by_vertices", <<first, second>>)

\* ---------------------------------------------------------- specification
Init ==
    /\ defaults = [c \in Classes |-> <<>>]
    /\ argl = [g \in Inst |-> <<>>]
    /\ kind = [g \in Inst |-> "none"]
    /\ vref = [g \in Inst |-> "none"]
    /\ edges = [g \in Inst |-> <<>>]
    /\ log = [g \in Inst |-> <<>>]
    /\ last = [op |-> "none", g |-> 0, args |-> <<>>, outcome |-> "ok"]

\* The calls a client can make on the graph objects in I.
Construct(I) ==
    \/ \E g \in I, c \in Classes : InitDefault(g, c)
    \/ \E g \in I, c \in Classes, vs \in SeqsUpTo(Values, MaxVertices) : InitWith(g, c, vs)

Grow(I) == \E g \in I, x \in Values : add_vertex(g, x)

\* the edge objects a caller can pass to add_edge of g
EdgeArgs(g) ==
    IF kind[g] = "WeightedGraph"
    THEN {WeightedEdge(u, v, w) : u \in Idx, v \in Idx, w \in Weights}
    ELSE {Edge(u, v) : u \in Idx, v \in Idx}

ByIndex(I) ==
    \/ \E g \in I : \E edge \in EdgeArgs(g) : add_edge(g, edge)
    \/ \E g \in I, u \in Idx, v \in Idx : add_edge_by_indices(g, u, v)
    \/ \E g \in I, u \in Idx, v \in Idx, w \in Weights :
            weighted_add_edge_by_indices(g, u, v, w)

ByValue(I) ==
    \/ \E g \in I, x \in Values, y \in Values : add_edge_by_vertices(g, x, y)
    \/ \E g \in I, x \in Values, y \in Values, w \in Weights :
            weighted_add_edge_by_vertices(g, x, y, w)

\* A run that builds one graph and uses the whole interface.
Next == Construct({1}) \/ Grow({1}) \/ ByIndex({1}) \/ ByValue({1})
Spec == Init /\ [][Next]_vars

\* A run that builds two graphs and addresses vertices by value only.
NextTwo == Construct(Inst) \/ Grow(Inst) \/ ByValue(Inst)
SpecTwo == Init /\ [][NextTwo]_vars

\* ------------------------------------------------------------ properties
Mutators == {"add_vertex", "add_edge", "add_edge_by_indices", "add_edge_by_vertices"}
ByIndexOps == {"add_edge", "add_edge_by_indices"}

\* the indices the documentation calls valid for g: [0, vertex_count)
Valid(g) == 0..(vertex_count(g) - 1)

\* adjacency[u] of g: the list at position u of self._edges, if there is one
adjacency(g, u) == IF u < Len(edges[g]) THEN edges[g][u + 1] ELSE <<>>

\* the number of entries of es whose far endpoint is v
Count(es, v) == Cardinality({k \in DOMAIN es : es[k].v = v})

\* r is a normal result holding x
Has(r, x) == r.outcome = "ok" /\ \E k \in DOMAIN r.value : r.value[k] = x

IsPrefix(s, t) == Len(s) <= Len(t) /\ \A k \in DOMAIN s : s[k] = t[k]

Present(vs, x) == \E k \in DOMAIN vs : vs[k] = x
Distinct(vs) == \A j, k \in DOMAIN vs : vs[j] = vs[k] => j = k
\* the smallest 0-based index of vs holding x
FirstMatch(vs, x) ==
    (CHOOSE k \in DOMAIN vs : vs[k] = x /\ \A j \in 1..(k - 1) : vs[j] # x) - 1

\* C1 -- Edge symmetry: in every reachable state of a Graph, for all vertex
\* indices u and v, adjacency[u] holds as many entries with far endpoint v as
\* adjacency[v] holds with far endpoint u; and right after
\* add_edge_by_indices(u, v) with valid u and v, vertex_at(v) is among
\* neighbors_for_index(u) and vertex_at(u) among neighbors_for_index(v).
EdgeSymmetry ==
    \A g \in Constructed :
        /\ \A u \in Valid(g), v \in Valid(g) :
               Count(adjacency(g, u), v) = Count(adjacency(g, v), u)
        /\ (/\ last.g = g
            /\ last.op = "add_edge_by_indices"
            /\ last.args[1] \in Valid(g)
            /\ last.args[2] \in Valid(g))
           => /\ Has(neighbors_for_index(g, last.args[1]), vertices(g)[last.args[2] + 1])
              /\ Has(neighbors_for_index(g, last.args[2]), vertices(g)[last.args[1] + 1])

\* C2 -- Length parity: every constructed graph has as many adjacency lists
\* as vertices, in every reachable state.
LengthParity == \A g \in Constructed : Len(edges[g]) = vertex_count(g)

\* C3 -- Failure atomicity: a call that raises leaves the vertex sequences
\* and every adjacency list exactly as they were before the call.
FailureAtomicity ==
    [][last'.outcome # "ok" => (defaults' = defaults /\ argl' = argl /\ edges' = edges)]_vars

\* C4 -- Index range check: vertex_at, neighbors_for_index, edges_for_index
\* and the endpoints of add_edge / add_edge_by_indices raise IndexError for
\* every index outside [0, vertex_count), negative ones included, and
\* succeed for every index inside it.
IndexRangeCheck ==
    \A g \in Constructed :
        /\ \A i \in Idx :
               /\ (vertex_at(g, i).outcome = "ok") = (i \in Valid(g))
               /\ (neighbors_for_index(g, i).outcome = "ok") = (i \in Valid(g))
               /\ (edges_for_index(g, i).outcome = "ok") = (i \in Valid(g))
               /\ i \notin Valid(g) =>
                      /\ vertex_at(g, i).outcome = "IndexError"
                      /\ neighbors_for_index(g, i).outcome = "IndexError"
                      /\ edges_for_index(g, i).outcome = "IndexError"
        /\ (last.g = g /\ last.op \in ByIndexOps) =>
               /\ (last.outcome = "ok") = (last.args[1] \in Valid(g) /\ last.args[2] \in Valid(g))
               /\ last.outcome \in {"ok", "IndexError"}

\* C5 -- Instance isolation: an add_vertex or edge-insertion call on one graph
\* changes neither the vertex sequence nor any adjacency list of another.
InstanceIsolation ==
    [][\A g \in Inst, h \in Inst :
          (g # h /\ kind[h] # "none" /\ last'.g = g /\ last'.op \in Mutators)
          => (vertices(h)' = vertices(h) /\ edges'[h] = edges[h])]_vars

\* C6 -- Weight mirroring: for every edge (u, v, w) a WeightedGraph inserted
\* with valid endpoints, neighbors_for_index_with_weights(u) holds
\* (vertex_at(v), w) and neighbors_for_index_with_weights(v) holds
\* (vertex_at(u), w), whatever insertion calls followed.
WeightMirroring ==
    \A g \in Constructed :
        kind[g] = "WeightedGraph" =>
            \A k \in DOMAIN log[g] :
                LET e == log[g][k] IN
                (e.u \in Valid(g) /\ e.v \in Valid(g)) =>
                    /\ Has(neighbors_for_index_with_weights(g, e.u),
                           <<vertices(g)[e.v + 1], e.weight>>)
                    /\ Has(neighbors_for_index_with_weights(g, e.v),
                           <<vertices(g)[e.u + 1], e.weight>>)

\* C7 -- Index/value round trip: with pairwise distinct vertex values,
\* index_of(vertex_at(i)) = i for every valid i; with duplicates index_of
\* returns the smallest index holding the value, and add_edge_by_vertices
\* attaches the edge to those first-match indices.
RoundTrip ==
    \A g \in Constructed :
        LET vs == vertices(g) IN
        /\ Distinct(vs) =>
               \A i \in Valid(g) :
                   /\ vertex_at(g, i).outcome = "ok"
                   /\ index_of(g, vertex_at(g, i).value) = Ok(i)
        /\ \A x \in Values : Present(vs, x) => index_of(g, x) = Ok(FirstMatch(vs, x))
        /\ (last.g = g /\ last.op = "add_edge_by_vertices" /\ last.outcome = "ok") =>
               LET u == FirstMatch(vs, last.args[1])
                   v == FirstMatch(vs, last.args[2])
                   e == log[g][Len(log[g])]
               IN  /\ e.u = u /\ e.v = v
                   /\ edges[g][u + 1] # <<>> /\ edges[g][v + 1] # <<>>
                   /\ edges[g][u + 1][Len(edges[g][u + 1])].v = v
                   /\ edges[g][v + 1][Len(edges[g][v + 1])].v = u

\* a value-based insertion succeeded on a graph holding the same value twice
RoundTripWitness ==
    \E g \in Constructed :
        /\ ~Distinct(vertices(g))
        /\ last.g = g /\ last.op = "add_edge_by_vertices" /\ last.outcome = "ok"
        /\ edge_count(g) = 2

\* every value-based query of an absent value raises ValueError
LookupFails ==
    \A g \in Constructed : \A x \in Values :
        ~Present(vertices(g), x) =>
            /\ index_of(g, x).outcome = "ValueError"
            /\ neighbors_for_vertex(g, x).outcome = "ValueError"
            /\ edges_for_vertex(g, x).outcome = "ValueError"

\* C8 -- Absent-value lookup: index_of, neighbors_for_vertex, edges_for_vertex
\* and add_edge_by_vertices (plain and weighted, absent value in either
\* position) raise ValueError for a value equal to no vertex, and the failing
\* insertion adds no edge.
AbsentValueLookup ==
    [][/\ LookupFails'
       /\ \A g \in Constructed :
              (/\ last'.g = g
               /\ last'.op = "add_edge_by_vertices"
               /\ (~Present(vertices(g), last'.args[1]) \/ ~Present(vertices(g), last'.args[2])))
              => (last'.outcome = "ValueError" /\ edges' = edges /\ log' = log)]_vars

\* a value-based insertion naming an absent value was refused by a weighted
\* graph that already held an edge
AbsentValueWitness ==
    \E g \in Constructed :
        /\ kind[g] = "WeightedGraph"
        /\ last.g = g /\ last.op = "add_edge_by_vertices" /\ last.outcome = "ValueError"
        /\ Present(vertices(g), last.args[1]) /\ ~Present(vertices(g), last.args[2])
        /\ edge_count(g) = 2

\* the adjacency entries of g counted one by one
Entries(g) == {<<i, k>> \in (1..Len(edges[g])) \X (1..MaxEdgeCount + 2) : k <= Len(edges[g][i])}

\* C9 -- Edge counting: edge_count is the sum of the adjacency lists'
\* lengths; each successful add_edge raises it by exactly 2, so it is 2k
\* after k successful insertions; add_vertex leaves it unchanged.
EdgeCounting ==
    [][\A g \in Inst :
          (kind'[g] # "none") =>
              /\ edge_count(g)' = Cardinality(Entries(g)')
              /\ edge_count(g)' = 2 * Len(log'[g])
              /\ (kind[g] # "none" /\ last'.g = g /\ last'.op \in Mutators \ {"add_vertex"}
                    /\ last'.outcome = "ok") => edge_count(g)' = edge_count(g) + 2
              /\ (kind[g] # "none" /\ last'.op = "add_vertex")
                    => edge_count(g)' = edge_count(g)]_vars

\* the far-endpoint vertices of the inserted edges lg that touch index i, in
\* insertion order (a self-loop touches i with both ends)
RECURSIVE Far(_, _, _)
Far(g, lg, i) ==
    IF lg = <<>> THEN <<>>
    ELSE LET e == Head(lg) IN
         (IF e.u = i /\ e.v \in Valid(g) THEN <<vertices(g)[e.v + 1]>> ELSE <<>>)
         \o (IF e.v = i /\ e.u \in Valid(g) THEN <<vertices(g)[e.u + 1]>> ELSE <<>>)
         \o Far(g, Tail(lg), i)

NeighborOrder ==
    \A g \in Constructed : \A i \in Valid(g) :
        /\ neighbors_for_index(g, i).outcome = "ok"
        /\ neighbors_for_index(g, i).value = Far(g, log[g], i)

\* C10 -- Insertion order and append-only growth: neighbors_for_index(i)
\* lists the far-endpoint vertices of the edges touching i in the order of
\* their add_edge calls, and every add_vertex or add_edge only appends: the
\* old vertex sequence and old adjacency lists are prefixes of the new ones,
\* and only the lists of the edge's two endpoints change.
InsertionOrder ==
    [][/\ NeighborOrder'
       /\ \A g \in Inst :
              kind[g] # "none" =>
                  /\ IsPrefix(vertices(g), vertices(g)')
                  /\ Len(edges[g]) <= Len(edges'[g])
                  /\ \A i \in DOMAIN edges[g] : IsPrefix(edges[g][i], edges'[g][i])
                  /\ (last'.g = g /\ last'.op \in ByIndexOps) =>
                         \A i \in DOMAIN edges[g] :
                             (i - 1) \notin {last'.args[1], last'.args[2]}
                                 => edges'[g][i] = edges[g][i]]_vars

====
